---------------------------- MODULE Spec2Model ----------------------------
(***************************************************************************)
(* Model of damnation: block layout of a styled node tree                   *)
(* (layout.py, style.py) and its rasterisation onto a character grid       *)
(* (renderer.py).                                                           *)
(*                                                                         *)
(* Numbers.  The program computes geometry in Python floats (IEEE 754      *)
(* binary64).  The model holds a float exactly, as the digits of its       *)
(* value, and rounds every sum, difference, product and quotient the code  *)
(* computes to 53 significant bits, to nearest, ties to even.  Every float *)
(* the inputs below give rise to is a whole multiple of 2^-60.             *)
(*                                                                         *)
(* Optional values.  A Python value that may be None (the result of an     *)
(* ancestor walk) is a sequence of length 0 (None) or 1 (the value).       *)
(***************************************************************************)
EXTENDS Integers, Sequences, FiniteSets, TLC

VARIABLES
    nodes,            \* the Node tree handed to layout_tree: id -> Node
    viewport_width,   \* layout_tree / render argument, whole pixels
    viewport_height,  \* layout_tree / render argument, whole pixels
    boxes,            \* the LayoutBox objects of the running call: id -> box
    stack,            \* call stack of layout_block frames, innermost last
    pc,               \* position of the caller: start, layout, returned, ...
    raised,           \* the exception that ended the call, or "none"
    calls,            \* number of layout_tree calls started
    results,          \* the box trees returned so far, one per finished call
    finished,         \* boxes whose layout() call has returned in this call
    character_array,  \* render's grid: rows of cells
    queue             \* render's deque of boxes still to paint

vars == <<nodes, viewport_width, viewport_height, boxes, stack, pc, raised,
          calls, results, finished, character_array, queue>>

----------------------------------------------------------------------------
(* Bounds of the model *)

\* side of the non-empty viewports, in pixels
ViewportPx == 8

\* number of layout_tree calls made on the same node tree
MaxCalls == 2

----------------------------------------------------------------------------
(* Python floats: IEEE 754 binary64, round to nearest, ties to even *)

\* the float 0.0.  A float is held exactly, as the limbs of value * 2^60 in
\* base 2^15, least significant first; the last limb is the whole part
\* (floor of the value) and carries the sign, the others are digits
Zero == <<0, 0, 0, 0, 0>>

\* one more than the largest digit of a limb
Base == 2^15

\* bits of a digit
Digit == 15 + 0

\* significand of binary64: 52 stored bits and the leading one
Significand == 52 + 1

\* float(n) of a whole number
float(n) == [i \in DOMAIN Zero |-> IF i = Len(Zero) THEN n ELSE 0]

\* limbs brought back to digits from limb i on, with c carried in
RECURSIVE carried(_, _, _)
carried(s, i, c) ==
    IF i = Len(s)
    THEN <<s[i] + c>>
    ELSE <<(s[i] + c) % Base>> \o carried(s, i + 1, (s[i] + c) \div Base)

\* limbs brought back to digits
digits(s) ==
    IF \A i \in 1..(Len(s) - 1) : 0 <= s[i] /\ s[i] < Base
    THEN s
    ELSE carried(s, 1, 0)

\* a + b and a - b of the reals a and b
plus(a, b) == digits([i \in DOMAIN a |-> a[i] + b[i]])

minus(a, b) == digits([i \in DOMAIN a |-> a[i] - b[i]])

negative(a) == a[Len(a)] < 0

abs(a) == IF negative(a) THEN minus(Zero, a) ELSE a

\* a < b, a <= b
lt(a, b) == negative(minus(a, b))

le(a, b) == ~lt(b, a)

RECURSIVE bits(_)
bits(x) == IF x = 0 THEN 0 ELSE 1 + bits(x \div 2)

\* the number of bits of the magnitude m
bit_length(m) ==
    LET used == {i \in DOMAIN m : m[i] # 0}
    IN IF used = {}
       THEN 0
       ELSE LET t == CHOOSE i \in used : \A j \in used : j <= i
            IN Digit * (t - 1) + bits(m[t])

\* bit p of the magnitude m
bit(m, p) == (m[(p \div Digit) + 1] \div 2^(p % Digit)) % 2

\* the magnitude m without its bits below p
truncated(m, p) ==
    [i \in DOMAIN m |->
        IF i <= p \div Digit
        THEN 0
        ELSE IF i = (p \div Digit) + 1
             THEN m[i] - (m[i] % 2^(p % Digit))
             ELSE m[i]]

\* the magnitude m, with bits lost below it already when inexact, rounded
\* to a multiple of 2^p: to nearest, ties to even
round_at(m, p, inexact) ==
    LET half == bit(m, p - 1) = 1
        more == inexact \/ truncated(m, p - 1) # m
        odd == bit(m, p) = 1
    IN IF half /\ (more \/ odd)
       THEN plus(truncated(m, p),
                 [i \in DOMAIN m |->
                     IF i = (p \div Digit) + 1 THEN 2^(p % Digit) ELSE 0])
       ELSE truncated(m, p)

\* the magnitude m rounded to Significand bits
rounded(m, inexact) ==
    LET p == bit_length(m) - Significand
    IN IF p <= 0 THEN m ELSE round_at(m, p, inexact)

\* the real a rounded to a float.  (A multiple of 2^-30 below 2^22 has no
\* more than Significand bits.)
round(a) ==
    IF a[1] = 0 /\ a[2] = 0 /\ a[Len(a)] < 2^22 /\ a[Len(a)] > -(2^22)
    THEN a
    ELSE IF negative(a)
         THEN minus(Zero, rounded(abs(a), FALSE))
         ELSE rounded(a, FALSE)

\* float.__add__, float.__sub__
add(a, b) == round(plus(a, b))

sub(a, b) == round(minus(a, b))

\* quotient and remainder of the limbs i down to 1 of the magnitude m by the
\* whole number k, with r carried in from above
RECURSIVE long_division(_, _, _, _)
long_division(m, i, r, k) ==
    IF i = 0
    THEN [q |-> <<>>, r |-> r]
    ELSE LET cur == r * Base + m[i]
             rest == long_division(m, i - 1, cur % k, k)
         IN [q |-> Append(rest.q, cur \div k), r |-> rest.r]

\* float.__truediv__ by the whole number k: a / 100.0, a / 2
truediv(a, k) ==
    LET d == long_division(abs(a), Len(a), 0, k)
        m == rounded(d.q, d.r # 0)
    IN IF negative(a) THEN minus(Zero, m) ELSE m

RECURSIVE total(_, _)
total(f, n) == IF n = 0 THEN 0 ELSE f[n] + total(f, n - 1)

\* the product of the magnitudes ma and mb, in limbs of value * 2^120
product(ma, mb) ==
    LET n == Len(ma)
        p(i, j) == IF i \in 1..n /\ j \in 1..n THEN ma[i] * mb[j] ELSE 0
    IN digits([k \in 1..(2 * n) |->
                  total([i \in 1..n |->
                            (p(i, k + 1 - i) % Base) + (p(i, k - i) \div Base)],
                        n)])

\* float.__mul__
mul(a, b) ==
    IF a = Zero \/ b = Zero
    THEN Zero
    ELSE LET n == Len(Zero)
             whole == product(abs(a), abs(b))
             lost == bit_length(whole) - Significand
             p == IF lost > Digit * (n - 1) THEN lost ELSE Digit * (n - 1)
             r == round_at(whole, p, FALSE)
             m == SubSeq(r, n, 2 * n - 2)
                  \o <<r[2 * n - 1] + Base * r[2 * n]>>
         IN IF negative(a) # negative(b) THEN minus(Zero, m) ELSE m

\* int(v) of a float: truncation toward zero
int(v) ==
    IF negative(v) /\ float(v[Len(v)]) # v THEN v[Len(v)] + 1 ELSE v[Len(v)]

----------------------------------------------------------------------------
(* style.py: values of style properties *)

None == [kind |-> "None", size |-> Zero, unit |-> "-"]

Auto == [kind |-> "Auto", size |-> Zero, unit |-> "-"]

Length(size, unit) == [kind |-> "Length", size |-> size, unit |-> unit]

\* Length(float(size), unit), as Style.__post_init__ and Length build it
Px(size) == Length(float(size), "PIXELS")

Pct(size) == Length(float(size), "PERCENT")

isLength(value) == value.kind = "Length"

isAuto(value) == value.kind = "Auto"

\* Style(): the dataclass defaults of the properties layout reads
Style ==
    [display |-> "BLOCK", position |-> "STATIC",
     height |-> Auto, width |-> Auto,
     padding |-> Px(0),
     padding_bottom |-> None, padding_left |-> None,
     padding_right |-> None, padding_top |-> None,
     border_bottom_width |-> None, border_left_width |-> None,
     border_right_width |-> None, border_top_width |-> None,
     border_width |-> Px(0),
     margin |-> Px(0),
     margin_bottom |-> None, margin_left |-> None,
     margin_right |-> None, margin_top |-> None]

\* the shorthand a side-specific key falls back to (Style.get)
Shorthand ==
    [padding_bottom |-> "padding", padding_left |-> "padding",
     padding_right |-> "padding", padding_top |-> "padding",
     margin_bottom |-> "margin", margin_left |-> "margin",
     margin_right |-> "margin", margin_top |-> "margin",
     border_bottom_width |-> "border_width",
     border_left_width |-> "border_width",
     border_right_width |-> "border_width",
     border_top_width |-> "border_width"]

\* Style.get(key): the stored value unless it is None, else the shorthand's
\* for a side-specific key, else None.  (display and position hold
\* enumeration members, never None.)
StyleGet(style, key) ==
    IF key \in DOMAIN Shorthand
    THEN IF style[key] # None THEN style[key] ELSE style[Shorthand[key]]
    ELSE IF key \in DOMAIN style THEN style[key] ELSE None

----------------------------------------------------------------------------
(* Inputs: node trees and viewports *)

\* demo.py: Style(border_width=1, display="block", height=2, width=2, margin=2)
DemoStyle ==
    [Style EXCEPT !.border_width = Px(1), !.height = Px(2),
                  !.width = Px(2), !.margin = Px(2)]

InlineStyle == [Style EXCEPT !.display = "INLINE"]

NoneStyle == [Style EXCEPT !.display = "NONE", !.width = Px(2), !.height = Px(2)]

\* out of flow, with a height and a top margin of its own
AbsoluteStyle ==
    [Style EXCEPT !.position = "ABSOLUTE", !.height = Px(2),
                  !.margin_top = Px(1)]

\* percentages and auto margins on both sides
PercentStyle ==
    [Style EXCEPT !.width = Pct(50), !.height = Pct(50), !.margin = Auto,
                  !.padding_top = Pct(50)]

\* fixed width wider than the viewport, no auto margin
OverStyle ==
    [Style EXCEPT !.width = Px(ViewportPx + 2), !.height = Px(1),
                  !.padding = Px(1)]

\* different top and bottom edges
TopBottomStyle ==
    [Style EXCEPT !.height = Px(1), !.margin_top = Px(2),
                  !.margin_bottom = Px(1), !.border_top_width = Px(1)]

\* over-constrained with an auto left margin: the box starts left of 0
NegativeStyle ==
    [Style EXCEPT !.width = Px(2), !.height = Px(2), !.margin_left = Auto,
                  !.margin_right = Px(ViewportPx)]

\* zero content width and height, fixed position
ZeroStyle ==
    [Style EXCEPT !.width = Px(0), !.height = Px(0), !.position = "FIXED"]

\* auto width whose margins alone overflow the container
WideMarginStyle ==
    [Style EXCEPT !.margin = Px(ViewportPx + 1), !.margin_right = Auto,
                  !.border_bottom_width = Px(1)]

\* fixed percent width, fixed margins that under-fill the container
UnderStyle ==
    [Style EXCEPT !.width = Pct(50), !.margin_left = Px(1),
                  !.padding_bottom = Px(1), !.height = Px(1)]

\* percentages that are no binary fractions
ThirdStyle ==
    [Style EXCEPT !.width = Pct(33), !.margin_left = Pct(33),
                  !.margin_right = Px(2), !.margin_top = Pct(33),
                  !.height = Px(1)]

StylePool ==
    {Style, DemoStyle, InlineStyle, NoneStyle, AbsoluteStyle, PercentStyle,
     OverStyle, TopBottomStyle, NegativeStyle, ZeroStyle, WideMarginStyle,
     UnderStyle, ThirdStyle}

DisplayPool == {Style, InlineStyle, NoneStyle}

\* the styles of the root of a tree of three nodes
RootPool ==
    {Style, DemoStyle, PercentStyle, OverStyle, ZeroStyle, ThirdStyle}

\* tree shapes as parent vectors: node i > 1 hangs under node shape[i] < i
SmallShapes == {<<0>>, <<0, 1>>}

GeometryShapes == {<<0, 1, 1>>, <<0, 1, 2>>}

StructureShapes == {<<0, 1, 1, 1>>}

\* Node.children of node i under a shape: its children in document order
ChildrenOf(shape, i) ==
    LET IsChild(j) == shape[j] = i
    IN SelectSeq([j \in 1..Len(shape) |-> j], IsChild)

\* Node(name, children, style)
MakeNodes(shape, styles) ==
    [i \in 1..Len(shape) |->
        [style |-> styles[i], children |-> ChildrenOf(shape, i)]]

SmallTrees ==
    UNION {{MakeNodes(shape, styles) :
                styles \in [1..Len(shape) -> StylePool]} :
           shape \in SmallShapes}

GeometryTrees ==
    UNION {{MakeNodes(shape, styles) :
                styles \in {s \in [1..Len(shape) -> StylePool] :
                               s[1] \in RootPool}} :
           shape \in GeometryShapes}

StructureTrees ==
    UNION {{MakeNodes(shape, styles) :
                styles \in {s \in [1..Len(shape) -> DisplayPool] :
                               s[1] = Style}} :
           shape \in StructureShapes}

\* demo.py: dummy = Node(name="box", style=...)
dummy == MakeNodes(<<0>>, <<DemoStyle>>)

\* demo.py: LayoutBox.layout_tree(dummy, 20, 20), render(root_box, 20, 20, ...)
DemoViewport == 20

\* the node layout_tree is called on
RootNode == 1

ViewportSizes == {0, ViewportPx}

----------------------------------------------------------------------------
(* layout.py: geometry types *)

\* to_pixels(value, container_pixels) raises TypeError: a percentage of None
to_pixels_raises(value, container_pixels) ==
    /\ isLength(value)
    /\ value.unit = "PERCENT"
    /\ container_pixels = <<>>

\* to_pixels(value, container_pixels) for a Length or Auto style value
to_pixels(value, container_pixels) ==
    IF isLength(value)
    THEN IF value.unit = "PIXELS"
         THEN value.size
         ELSE mul(truediv(value.size, 100), container_pixels[1])
    ELSE Zero

EdgeSizes == [left |-> Zero, right |-> Zero, top |-> Zero, bottom |-> Zero]

Rectangle == [x |-> Zero, y |-> Zero, width |-> Zero, height |-> Zero]

\* expanded_by with the right and bottom edges taken off instead of added
expanded_by_sign_slip(rect, edge, containing_block) ==
    [x |-> sub(rect.x, edge.left),
     y |-> sub(rect.y, edge.top),
     width |-> sub(add(rect.width, edge.left), edge.right),
     height |-> sub(add(rect.height, edge.top), edge.bottom)]

\* Rectangle.expanded_by(edge, containing_block): the edges are numbers
\* already, which to_pixels returns as they are
expanded_by(rect, edge, containing_block) ==
    [x |-> sub(rect.x, edge.left),
     y |-> sub(rect.y, edge.top),
     width |-> add(add(rect.width, edge.left), edge.right),
     height |-> add(add(rect.height, edge.top), edge.bottom)]

Dimensions ==
    [child_height |-> Zero, content |-> Rectangle, padding |-> EdgeSizes,
     border |-> EdgeSizes, margin |-> EdgeSizes]

padding_box(d, containing_block) ==
    expanded_by(d.content, d.padding, containing_block)

border_box(d, containing_block) ==
    expanded_by(padding_box(d, containing_block), d.border, containing_block)

margin_box(d, containing_block) ==
    expanded_by(border_box(d, containing_block), d.margin, containing_block)

----------------------------------------------------------------------------
(* layout.py: LayoutBox *)

\* box ids: 0 is the viewport box, a node's box has the node's id, the
\* anonymous boxes count down from -1
ViewportBox == 0

NoBox == <<>>

\* the node held by an anonymous box (node = None)
NoNode == -1

\* the node of the viewport box: Node("viewport", style=Style(width=.., height=..))
ViewportNode == 0

\* node.get(key) for the node a box holds
NodeGet(n, key) ==
    IF n = ViewportNode
    THEN StyleGet([Style EXCEPT !.width = Px(viewport_width),
                                !.height = Px(viewport_height)], key)
    ELSE StyleGet(nodes[n].style, key)

\* one Dimensions object shared by the boxes of every call: the root's of
\* the call before, once there is one
SharedDimensions ==
    IF RootNode \in DOMAIN boxes
    THEN boxes[RootNode].dimensions
    ELSE Dimensions

\* dataclass default_factory=Dimensions: every box gets an object of its own
NewDimensions == Dimensions

\* LayoutBox(box_type, node, parent): children and dimensions by default
LayoutBox(box_type, node, parent) ==
    [box_type |-> box_type, node |-> node, parent |-> parent,
     children |-> <<>>, dimensions |-> NewDimensions]

\* the box get_inline_container returns for box b
inline_container(bs, b) ==
    IF bs[b].box_type \in {"INLINE", "ANONYMOUS"}
    THEN b
    ELSE IF /\ Len(bs[b].children) > 0
            /\ bs[bs[b].children[Len(bs[b].children)]].box_type = "ANONYMOUS"
         THEN bs[b].children[Len(bs[b].children)]
         ELSE -(Cardinality({i \in DOMAIN bs : i < 0}) + 1)

\* get_inline_container: the boxes after the call, a new anonymous box
\* appended to b's children when b has no inline container yet
get_inline_container(bs, b) ==
    LET c == inline_container(bs, b)
    IN IF c \in DOMAIN bs
       THEN bs
       ELSE [bs EXCEPT ![b].children = Append(@, c)]
            @@ (c :> LayoutBox("ANONYMOUS", NoNode, <<b>>))

RECURSIVE build_tree(_, _, _)
RECURSIVE build_children(_, _, _, _)

\* build_tree(node, parent) for a node whose display is BLOCK or INLINE:
\* the boxes with the node's subtree added
build_tree(bs, n, parent) ==
    LET root == LayoutBox(NodeGet(n, "display"), n, parent)
    IN build_children(bs @@ (n :> root), n, nodes[n].children, 1)

\* the loop of build_tree over node.children, from the k-th child on
build_children(bs, r, kids, k) ==
    IF k > Len(kids)
    THEN bs
    ELSE LET child == kids[k]
             display == NodeGet(child, "display")
         IN IF display = "BLOCK"
            THEN build_children(
                     [build_tree(bs, child, <<r>>)
                         EXCEPT ![r].children = Append(@, child)],
                     r, kids, k + 1)
            ELSE IF display = "INLINE"
                 THEN LET c == inline_container(bs, r)
                      IN build_children(
                             [build_tree(get_inline_container(bs, r),
                                         child, <<r>>)
                                 EXCEPT ![c].children = Append(@, child)],
                             r, kids, k + 1)
                 ELSE build_children(bs, r, kids, k + 1)

\* find_ancestral_width / find_ancestral_height: the first non-zero content
\* width (height) up the parent chain, or None
RECURSIVE find_ancestral(_, _, _)
find_ancestral(bs, parent, side) ==
    IF parent = NoBox
    THEN <<>>
    ELSE IF bs[parent[1]].dimensions.content[side] # Zero
         THEN <<bs[parent[1]].dimensions.content[side]>>
         ELSE find_ancestral(bs, bs[parent[1]].parent, side)

find_ancestral_width(bs, b) == find_ancestral(bs, bs[b].parent, "width")

find_ancestral_height(bs, b) == find_ancestral(bs, bs[b].parent, "height")

\* find_positioned_ancestor: the nearest ancestor whose position is not FIXED
RECURSIVE positioned_ancestor(_, _)
positioned_ancestor(bs, parent) ==
    IF parent = NoBox
    THEN NoBox
    ELSE IF NodeGet(bs[parent[1]].node, "position") # "FIXED"
         THEN parent
         ELSE positioned_ancestor(bs, bs[parent[1]].parent)

find_positioned_ancestor(bs, b) == positioned_ancestor(bs, bs[b].parent)

----------------------------------------------------------------------------
(* layout.py: the phases of layout_block *)

\* distribute_underflow with the right margin of a fixed-width box left as
\* declared when neither margin is auto
distribute_underflow_unabsorbed(width, margin_left, margin_right, underflow, container_width) ==
    IF isAuto(width)
    THEN [width |-> IF negative(underflow) THEN Zero ELSE underflow,
          margin_left |-> to_pixels(margin_left, container_width),
          margin_right |->
              add(to_pixels(margin_right, container_width),
                  IF negative(underflow) THEN underflow ELSE Zero)]
    ELSE [width |-> to_pixels(width, container_width),
          margin_left |->
              IF isAuto(margin_left)
              THEN (IF isAuto(margin_right)
                    THEN truediv(underflow, 2)
                    ELSE underflow)
              ELSE to_pixels(margin_left, container_width),
          margin_right |->
              IF isAuto(margin_right)
              THEN (IF isAuto(margin_left)
                    THEN truediv(underflow, 2)
                    ELSE underflow)
              ELSE to_pixels(margin_right, container_width)]

\* lines 234-255: how width and the side margins absorb the underflow.
\* width, margin_left, margin_right are the declared style values;
\* the result holds the resolved numbers
distribute_underflow(width, margin_left, margin_right, underflow, container_width) ==
    IF isAuto(width)
    THEN IF ~negative(underflow)
         THEN [width |-> underflow,
               margin_left |-> to_pixels(margin_left, container_width),
               margin_right |-> to_pixels(margin_right, container_width)]
         ELSE [width |-> Zero,
               margin_left |-> to_pixels(margin_left, container_width),
               margin_right |->
                   add(to_pixels(margin_right, container_width), underflow)]
    ELSE IF isAuto(margin_left) /\ isAuto(margin_right)
         THEN [width |-> to_pixels(width, container_width),
               margin_left |-> truediv(underflow, 2),
               margin_right |-> truediv(underflow, 2)]
         ELSE IF isAuto(margin_left)
              THEN [width |-> to_pixels(width, container_width),
                    margin_left |-> underflow,
                    margin_right |-> to_pixels(margin_right, container_width)]
              ELSE IF isAuto(margin_right)
                   THEN [width |-> to_pixels(width, container_width),
                         margin_left |->
                             to_pixels(margin_left, container_width),
                         margin_right |-> underflow]
                   ELSE [width |-> to_pixels(width, container_width),
                         margin_left |->
                             to_pixels(margin_left, container_width),
                         margin_right |->
                             add(to_pixels(margin_right, container_width),
                                 underflow)]

\* sum(values) of a sequence of floats: left to right, from 0
RECURSIVE sum(_)
sum(values) ==
    IF values = <<>>
    THEN Zero
    ELSE add(sum(SubSeq(values, 1, Len(values) - 1)), values[Len(values)])

\* the sum of line 221: the seven horizontal values in pixels
horizontal_total(n, container_width) ==
    sum(<<to_pixels(NodeGet(n, "margin_left"), container_width),
          to_pixels(NodeGet(n, "margin_right"), container_width),
          to_pixels(NodeGet(n, "border_left_width"), container_width),
          to_pixels(NodeGet(n, "border_right_width"), container_width),
          to_pixels(NodeGet(n, "padding_left"), container_width),
          to_pixels(NodeGet(n, "padding_right"), container_width),
          to_pixels(NodeGet(n, "width"), container_width)>>)

\* calculate_block_width raises TypeError: container_width - total with a
\* container_width of None (a percentage of None raises in the sum before)
calculate_block_width_raises(bs, b) == find_ancestral_width(bs, b) = <<>>

\* calculate_block_width: the dimensions of box b after the call
calculate_block_width(bs, b) ==
    LET container_width == find_ancestral_width(bs, b)
        n == bs[b].node
        underflow == sub(container_width[1],
                         horizontal_total(n, container_width))
        r == distribute_underflow(NodeGet(n, "width"),
                                  NodeGet(n, "margin_left"),
                                  NodeGet(n, "margin_right"),
                                  underflow, container_width)
        d == bs[b].dimensions
    IN [d EXCEPT
          !.content.width = r.width,
          !.padding.left = to_pixels(NodeGet(n, "padding_left"), container_width),
          !.padding.right = to_pixels(NodeGet(n, "padding_right"), container_width),
          !.border.left = to_pixels(NodeGet(n, "border_left_width"), container_width),
          !.border.right = to_pixels(NodeGet(n, "border_right_width"), container_width),
          !.margin.left = r.margin_left,
          !.margin.right = r.margin_right]

VerticalKeys ==
    {"margin_top", "margin_bottom", "border_top_width",
     "border_bottom_width", "padding_top", "padding_bottom"}

\* calculate_block_position raises TypeError: a percentage vertical edge
\* resolved against a container_height of None
calculate_block_position_raises(bs, b) ==
    \E key \in VerticalKeys :
        to_pixels_raises(NodeGet(bs[b].node, key), find_ancestral_height(bs, b))

\* lines 272-280: the origin the box is placed against
position_base(bs, b, containing_block) ==
    IF NodeGet(bs[b].node, "position") = "ABSOLUTE"
    THEN LET positioned_block == find_positioned_ancestor(bs, b)
         IN IF positioned_block # NoBox
            THEN [x |-> bs[positioned_block[1]].dimensions.content.x,
                  y |-> bs[positioned_block[1]].dimensions.content.y]
            ELSE [x |-> Zero, y |-> Zero]
    ELSE [x |-> bs[containing_block].dimensions.content.x,
          y |-> bs[containing_block].dimensions.content.y]

\* content_origin without the containing block's running child_height
content_origin_unstacked(base, child_height, d) ==
    [x |-> sum(<<base.x, d.margin.left, d.border.left, d.padding.left>>),
     y |-> sum(<<base.y, d.margin.top, d.border.top, d.padding.top>>)]

\* lines 301-313: content.x and content.y from the base, the containing
\* block's running child_height and the box's own resolved edges d
content_origin(base, child_height, d) ==
    [x |-> sum(<<base.x, d.margin.left, d.border.left, d.padding.left>>),
     y |-> sum(<<child_height, base.y, d.margin.top, d.border.top,
                 d.padding.top>>)]

\* calculate_block_position: the dimensions of box b after the call
calculate_block_position(bs, b, containing_block) ==
    LET container_height == find_ancestral_height(bs, b)
        n == bs[b].node
        d == [bs[b].dimensions EXCEPT
                !.margin.top = to_pixels(NodeGet(n, "margin_top"), container_height),
                !.margin.bottom = to_pixels(NodeGet(n, "margin_bottom"), container_height),
                !.border.top = to_pixels(NodeGet(n, "border_top_width"), container_height),
                !.border.bottom = to_pixels(NodeGet(n, "border_bottom_width"), container_height),
                !.padding.top = to_pixels(NodeGet(n, "padding_top"), container_height),
                !.padding.bottom = to_pixels(NodeGet(n, "padding_bottom"), container_height)]
        o == content_origin(position_base(bs, b, containing_block),
                            bs[containing_block].dimensions.child_height, d)
    IN [d EXCEPT !.content.x = o.x, !.content.y = o.y]

\* calculate_block_height raises TypeError: a percentage height resolved
\* against a container_height of None
calculate_block_height_raises(bs, b) ==
    to_pixels_raises(NodeGet(bs[b].node, "height"), find_ancestral_height(bs, b))

\* calculate_block_height that takes the height from the children whatever
\* the height style says
calculate_block_height_from_children(bs, b) ==
    [bs[b].dimensions EXCEPT !.content.height = bs[b].dimensions.child_height]

\* calculate_block_height: the dimensions of box b after the call
calculate_block_height(bs, b) ==
    LET height == NodeGet(bs[b].node, "height")
        d == bs[b].dimensions
    IN IF isLength(height)
       THEN [d EXCEPT !.content.height =
                         to_pixels(height, find_ancestral_height(bs, b))]
       ELSE [d EXCEPT !.content.height = d.child_height]

\* layout_block_children that counts the absolutely positioned children too
add_child_height_absolute_too(bs, b, child) ==
    add(bs[b].dimensions.child_height,
        margin_box(bs[child].dimensions, bs[b].dimensions).height)

\* layout_block_children, lines 318-322: the child_height of box b once its
\* child has been laid out
add_child_height(bs, b, child) ==
    IF NodeGet(bs[child].node, "position") = "ABSOLUTE"
    THEN bs[b].dimensions.child_height
    ELSE add(bs[b].dimensions.child_height,
             margin_box(bs[child].dimensions, bs[b].dimensions).height)

\* layout_block with the height calculated before the children are laid out
layout_block_height_first == <<"width", "position", "height", "children">>

\* layout_block: the order of its four calls
layout_block == <<"width", "position", "children", "height">>

\* a frame of layout_block on box, laid out against containing_block:
\* step is the call of layout_block it is at, i the child the loop of
\* layout_block_children is at, waiting whether child.layout() has been
\* called for that child and lines 318-322 are still to run
Frame(box, containing_block) ==
    [box |-> box, containing_block |-> containing_block, step |-> 1,
     i |-> 1, waiting |-> FALSE]

Top == stack[Len(stack)]

Phase(f) == layout_block[f.step]

ReplaceTop(stk, f) == [stk EXCEPT ![Len(stk)] = f]

Pop(stk) == SubSeq(stk, 1, Len(stk) - 1)

\* the stack once the top frame has finished its current call of
\* layout_block: the next call, passing over the loop of a box with no
\* children, or the return of layout_block
RECURSIVE Continue(_, _)
Continue(bs, stk) ==
    LET f == [stk[Len(stk)] EXCEPT !.step = @ + 1]
    IN IF f.step > Len(layout_block)
       THEN Pop(stk)
       ELSE IF layout_block[f.step] = "children"
               /\ Len(bs[f.box].children) = 0
            THEN Continue(bs, ReplaceTop(stk, f))
            ELSE ReplaceTop(stk, f)

\* the boxes whose layout() has returned, once the stack goes from stk to next
Finished(stk, next) ==
    IF Len(next) < Len(stk) THEN finished \cup {stk[Len(stk)].box} ELSE finished

----------------------------------------------------------------------------
(* renderer.py *)

\* class Border: the glyphs paint_border uses, by name
Border ==
    [LIGHT_HORIZONTAL |-> "LIGHT_HORIZONTAL",
     LIGHT_VERTICAL |-> "LIGHT_VERTICAL",
     LIGHT_ARC_TOP_RIGHT |-> "LIGHT_ARC_TOP_RIGHT",
     LIGHT_ARC_TOP_LEFT |-> "LIGHT_ARC_TOP_LEFT",
     LIGHT_ARC_BOTTOM_RIGHT |-> "LIGHT_ARC_BOTTOM_RIGHT",
     LIGHT_ARC_BOTTOM_LEFT |-> "LIGHT_ARC_BOTTOM_LEFT"]

\* the fill character render is called with (demo.py: default_fill=".")
default_fill == "."

\* the position in a Python list of length n that index i names: i itself
\* from 0 to n - 1, n + i for a negative index down to -n, else IndexError
\* (None here).  Positions count from 1 in the model's sequences
list_index(i, n) ==
    IF 0 <= i /\ i < n
    THEN <<i + 1>>
    ELSE IF i < 0 /\ -n <= i
         THEN <<n + i + 1>>
         ELSE <<>>

\* the cell <<row, column>> that character_array[y][x] names, or None when
\* indexing raises IndexError
target(array, x, y) ==
    LET row == list_index(y, Len(array))
    IN IF row = <<>>
       THEN <<>>
       ELSE LET cell == list_index(x, Len(array[row[1]]))
            IN IF cell = <<>> THEN <<>> ELSE <<row[1], cell[1]>>

\* paint: character_array[y][x] = character, an IndexError passed over
paint(array, x, y, character) ==
    LET t == target(array, x, y)
    IN IF t = <<>> THEN array ELSE [array EXCEPT ![t[1]][t[2]] = character]

\* a run of paint calls <<x, y, character>> made in order: each cell ends
\* with the character of the last call that wrote it
paint_all(array, ops) ==
    [r \in 1..Len(array) |->
        [c \in 1..Len(array[r]) |->
            LET hits == {k \in 1..Len(ops) :
                            target(array, ops[k][1], ops[k][2]) = <<r, c>>}
            IN IF hits = {}
               THEN array[r][c]
               ELSE ops[CHOOSE k \in hits : \A j \in hits : j <= k][3]]]

\* range with stop included
range_through(start, stop) ==
    [k \in 1..(IF stop >= start THEN stop - start + 1 ELSE 0) |-> start + k - 1]

\* range(start, stop) as a sequence
range(start, stop) ==
    [k \in 1..(IF stop > start THEN stop - start ELSE 0) |-> start + k - 1]

\* lines 32-35 and 46-49: the cell span of the padding box
span(d) ==
    [start_x |-> int(sub(d.content.x, d.padding.left)),
     stop_x |-> int(add(add(d.content.x, d.content.width), d.padding.right)),
     start_y |-> int(sub(d.content.y, d.padding.top)),
     stop_y |-> int(add(add(d.content.y, d.content.height),
                        d.padding.bottom))]

\* the paint calls of paint_background, in order
background_ops(d) ==
    LET s == span(d)
        xs == range(s.start_x, s.stop_x)
        ys == range(s.start_y, s.stop_y)
    IN [k \in 1..(Len(xs) * Len(ys)) |->
           <<xs[((k - 1) \div Len(ys)) + 1], ys[((k - 1) % Len(ys)) + 1], " ">>]

Row(xs, y, character) == [k \in 1..Len(xs) |-> <<xs[k], y, character>>]

Column(x, ys, character) == [k \in 1..Len(ys) |-> <<x, ys[k], character>>]

When(condition, ops) == IF condition THEN ops ELSE <<>>

\* the paint calls of paint_border, in order
border_ops(d) ==
    LET s == span(d)
        xs == range(s.start_x, s.stop_x)
        ys == range(s.start_y, s.stop_y)
        top == d.border.top # Zero
        bottom == d.border.bottom # Zero
        left == d.border.left # Zero
        right == d.border.right # Zero
    IN When(top, Row(xs, s.start_y - 1, Border.LIGHT_HORIZONTAL))
       \o When(top /\ left,
               <<<<s.start_x - 1, s.start_y - 1, Border.LIGHT_ARC_TOP_LEFT>>>>)
       \o When(top /\ right,
               <<<<s.stop_x, s.start_y - 1, Border.LIGHT_ARC_TOP_RIGHT>>>>)
       \o When(bottom, Row(xs, s.stop_y, Border.LIGHT_HORIZONTAL))
       \o When(bottom /\ left,
               <<<<s.start_x - 1, s.stop_y, Border.LIGHT_ARC_BOTTOM_LEFT>>>>)
       \o When(bottom /\ right,
               <<<<s.stop_x, s.stop_y, Border.LIGHT_ARC_BOTTOM_RIGHT>>>>)
       \o When(left, Column(s.start_x - 1, ys, Border.LIGHT_VERTICAL))
       \o When(right, Column(s.stop_x, ys, Border.LIGHT_VERTICAL))

\* render_one_box: paint_background, then paint_border
render_one_box(d, array) ==
    paint_all(paint_all(array, background_ops(d)), border_ops(d))

----------------------------------------------------------------------------
Init ==
    /\ \/ /\ nodes \in SmallTrees \cup StructureTrees
          /\ viewport_width \in ViewportSizes
          /\ viewport_height \in ViewportSizes
       \/ /\ nodes \in GeometryTrees
          /\ viewport_width = ViewportPx
          /\ viewport_height = ViewportPx
       \/ /\ nodes = dummy
          /\ viewport_width = DemoViewport
          /\ viewport_height = DemoViewport
    /\ boxes = <<>>
    /\ stack = <<>>
    /\ pc = "start"
    /\ raised = "none"
    /\ calls = 0
    /\ results = <<>>
    /\ finished = {}
    /\ character_array = <<>>
    /\ queue = <<>>


Raise(exception) ==
    /\ pc' = "raised"
    /\ raised' = exception

\* layout_tree up to root_box.layout(...) entering layout_block
LayoutTree ==
    /\ pc \in {"start", "returned"}
    /\ calls < MaxCalls
    /\ calls' = calls + 1
    /\ LET viewport_box ==
               [LayoutBox("BLOCK", ViewportNode, NoBox) EXCEPT
                   !.dimensions.content.width = float(viewport_width),
                   !.dimensions.content.height = float(viewport_height)]
           bs == ViewportBox :> viewport_box
       IN IF NodeGet(RootNode, "display") = "NONE"
          THEN \* build_tree returns None; None.layout raises
               /\ boxes' = bs
               /\ Raise("AttributeError")
               /\ UNCHANGED <<stack, finished>>
          ELSE /\ boxes' = build_tree(bs, RootNode, <<ViewportBox>>)
               /\ pc' = "layout"
               /\ raised' = raised
               /\ IF NodeGet(RootNode, "display") = "BLOCK"
                  THEN /\ stack' = <<Frame(RootNode, ViewportBox)>>
                       /\ finished' = {}
                  ELSE /\ stack' = <<>>
                       /\ finished' = {RootNode}
    /\ UNCHANGED <<nodes, viewport_width, viewport_height, results,
                   character_array, queue>>

CalculateBlockWidth ==
    /\ pc = "layout"
    /\ stack # <<>>
    /\ Phase(Top) = "width"
    /\ IF calculate_block_width_raises(boxes, Top.box)
       THEN /\ Raise("TypeError")
            /\ UNCHANGED <<boxes, stack, finished>>
       ELSE /\ boxes' = [boxes EXCEPT ![Top.box].dimensions =
                                         calculate_block_width(boxes, Top.box)]
            /\ stack' = Continue(boxes, stack)
            /\ finished' = Finished(stack, stack')
            /\ UNCHANGED <<pc, raised>>
    /\ UNCHANGED <<nodes, viewport_width, viewport_height, calls, results,
                   character_array, queue>>

CalculateBlockPosition ==
    /\ pc = "layout"
    /\ stack # <<>>
    /\ Phase(Top) = "position"
    /\ IF calculate_block_position_raises(boxes, Top.box)
       THEN /\ Raise("TypeError")
            /\ UNCHANGED <<boxes, stack, finished>>
       ELSE /\ boxes' = [boxes EXCEPT ![Top.box].dimensions =
                             calculate_block_position(boxes, Top.box,
                                                      Top.containing_block)]
            /\ stack' = Continue(boxes, stack)
            /\ finished' = Finished(stack, stack')
            /\ UNCHANGED <<pc, raised>>
    /\ UNCHANGED <<nodes, viewport_width, viewport_height, calls, results,
                   character_array, queue>>

\* layout_block_children, line 317: child.layout(self.dimensions)
LayoutChild ==
    /\ pc = "layout"
    /\ stack # <<>>
    /\ Phase(Top) = "children"
    /\ ~Top.waiting
    /\ LET child == boxes[Top.box].children[Top.i]
           called == ReplaceTop(stack, [Top EXCEPT !.waiting = TRUE])
       IN IF boxes[child].box_type = "BLOCK"
          THEN /\ stack' = Append(called, Frame(child, Top.box))
               /\ finished' = finished
          ELSE \* layout_inline passes; an anonymous box is not laid out
               /\ stack' = called
               /\ finished' = finished \cup {child}
    /\ UNCHANGED <<nodes, viewport_width, viewport_height, boxes, pc, raised,
                   calls, results, character_array, queue>>

\* layout_block_children, lines 318-322, after child.layout() has returned
AccumulateChild ==
    /\ pc = "layout"
    /\ stack # <<>>
    /\ Phase(Top) = "children"
    /\ Top.waiting
    /\ LET child == boxes[Top.box].children[Top.i]
           next == [Top EXCEPT !.i = @ + 1, !.waiting = FALSE]
       IN IF boxes[child].node = NoNode
          THEN \* child.node is None: None.get raises
               /\ Raise("AttributeError")
               /\ UNCHANGED <<boxes, stack, finished>>
          ELSE /\ boxes' =
                    [boxes EXCEPT ![Top.box].dimensions.child_height =
                                      add_child_height(boxes, Top.box, child)]
               /\ stack' =
                    IF next.i > Len(boxes[Top.box].children)
                    THEN Continue(boxes, ReplaceTop(stack, next))
                    ELSE ReplaceTop(stack, next)
               /\ finished' = Finished(stack, stack')
               /\ UNCHANGED <<pc, raised>>
    /\ UNCHANGED <<nodes, viewport_width, viewport_height, calls, results,
                   character_array, queue>>

CalculateBlockHeight ==
    /\ pc = "layout"
    /\ stack # <<>>
    /\ Phase(Top) = "height"
    /\ IF calculate_block_height_raises(boxes, Top.box)
       THEN /\ Raise("TypeError")
            /\ UNCHANGED <<boxes, stack, finished>>
       ELSE /\ boxes' = [boxes EXCEPT ![Top.box].dimensions =
                                         calculate_block_height(boxes, Top.box)]
            /\ stack' = Continue(boxes, stack)
            /\ finished' = Finished(stack, stack')
            /\ UNCHANGED <<pc, raised>>
    /\ UNCHANGED <<nodes, viewport_width, viewport_height, calls, results,
                   character_array, queue>>

\* layout_tree, lines 169-170: root_box.layout() has returned
LayoutTreeReturn ==
    /\ pc = "layout"
    /\ stack = <<>>
    /\ boxes' = [boxes EXCEPT ![ViewportBox].children = Append(@, RootNode)]
    /\ results' = Append(results, boxes')
    /\ pc' = "returned"
    /\ UNCHANGED <<nodes, viewport_width, viewport_height, stack, raised,
                   calls, finished, character_array, queue>>

\* render, lines 80-83: the grid of fill characters and the deque
Render ==
    /\ pc = "returned"
    /\ character_array' =
           [y \in 1..viewport_height |->
               [x \in 1..viewport_width |-> default_fill]]
    /\ queue' = <<RootNode>>
    /\ pc' = "render"
    /\ UNCHANGED <<nodes, viewport_width, viewport_height, boxes, stack,
                   raised, calls, results, finished>>

\* render, lines 84-88: one turn of the loop; the grid is returned when the
\* deque is empty
RenderOneBox ==
    /\ pc = "render"
    /\ queue # <<>>
    /\ LET current_box == Head(queue)
       IN /\ character_array' =
                 render_one_box(boxes[current_box].dimensions, character_array)
          /\ queue' = Tail(queue) \o boxes[current_box].children
    /\ pc' = IF queue' = <<>> THEN "rendered" ELSE "render"
    /\ UNCHANGED <<nodes, viewport_width, viewport_height, boxes, stack,
                   raised, calls, results, finished>>

Next ==
    \/ Render
    \/ RenderOneBox
    \/ LayoutTree
    \/ CalculateBlockWidth
    \/ CalculateBlockPosition
    \/ LayoutChild
    \/ AccumulateChild
    \/ CalculateBlockHeight
    \/ LayoutTreeReturn

Spec == Init /\ [][Next]_vars

----------------------------------------------------------------------------
(* Vocabulary of the properties *)

\* layout_tree has just returned the tree in boxes
Returned == pc = "returned"

\* the Block boxes of nodes that layout_block has finished on
LaidOut ==
    {b \in DOMAIN boxes :
        b \in finished /\ b # ViewportBox /\ boxes[b].box_type = "BLOCK"}

\* the Block boxes of nodes whose calculate_block_width has run
WidthDone ==
    LaidOut \cup {stack[k].box : k \in {j \in DOMAIN stack : stack[j].step > 1}}

IsAbsolute(b) == NodeGet(boxes[b].node, "position") = "ABSOLUTE"

\* consecutive children <<A, B>> of p, both Block boxes in the flow
FlowPairs(p) ==
    {<<boxes[p].children[k], boxes[p].children[k + 1]>> :
        k \in {j \in 1..(Len(boxes[p].children) - 1) :
                 /\ boxes[boxes[p].children[j]].box_type = "BLOCK"
                 /\ boxes[boxes[p].children[j + 1]].box_type = "BLOCK"
                 /\ ~IsAbsolute(boxes[p].children[j])
                 /\ ~IsAbsolute(boxes[p].children[j + 1])}}

MarginBox(b, p) == margin_box(boxes[b].dimensions, boxes[p].dimensions)

\* the real sum of the top margin, border and padding of box b
TopEdges(b) ==
    plus(plus(boxes[b].dimensions.margin.top, boxes[b].dimensions.border.top),
         boxes[b].dimensions.padding.top)

\* 2^-40 of a pixel
Rounding == <<0, 2^5, 0, 0, 0>>

\* the floats a and b differ by no more than Rounding
Near(a, b) == le(abs(minus(a, b)), Rounding)

\* the float v is a multiple of 2^-30
Short(v) == v[1] = 0 /\ v[2] = 0

\* every number held by the boxes is a multiple of 2^-30 of a pixel, as
\* whole pixels and their halves, quarters, ... are: no sum of them is
\* rounded
NothingRounded ==
    \A b \in DOMAIN boxes :
        LET d == boxes[b].dimensions
        IN /\ Short(d.child_height)
           /\ \A side \in DOMAIN Rectangle : Short(d.content[side])
           /\ \A side \in DOMAIN EdgeSizes :
                 /\ Short(d.margin[side])
                 /\ Short(d.border[side])
                 /\ Short(d.padding[side])

\* a equals b up to floating-point rounding, and exactly where nothing is
\* rounded
Balanced(a, b) == Near(a, b) /\ (NothingRounded => a = b)

----------------------------------------------------------------------------
(* C1: vertical stacking *)

\* C1 as claimed: for consecutive in-flow block children A, B of a laid-out
\* block parent, B.content.y - A.content.y is the height of A's margin box
C1_ContentStacking ==
    Returned =>
        \A p \in LaidOut : \A ab \in FlowPairs(p) :
            minus(boxes[ab[2]].dimensions.content.y,
                  boxes[ab[1]].dimensions.content.y)
            = MarginBox(ab[1], p).height

\* C1 as amended: the margin boxes stack.  For consecutive in-flow block
\* children A, B of a laid-out block parent, B's margin box starts where
\* A's ends: margin_box(B).y - margin_box(A).y is the height of A's margin
\* box; the content origins differ by that height plus B's top
\* margin+border+padding minus A's.  Both hold up to floating-point
\* rounding (2^-40 of a pixel), and exactly where no value is rounded
C1_MarginBoxStacking ==
    Returned =>
        \A p \in LaidOut : \A ab \in FlowPairs(p) :
            /\ Balanced(minus(MarginBox(ab[2], p).y, MarginBox(ab[1], p).y),
                        MarginBox(ab[1], p).height)
            /\ Balanced(minus(boxes[ab[2]].dimensions.content.y,
                              boxes[ab[1]].dimensions.content.y),
                        minus(plus(MarginBox(ab[1], p).height,
                                   TopEdges(ab[2])),
                              TopEdges(ab[1])))

\* two stacked siblings whose top edges differ, the first of them with a
\* margin box of positive height, in a tree where nothing is rounded
C1_Witness ==
    /\ Returned
    /\ NothingRounded
    /\ \E p \in LaidOut : \E ab \in FlowPairs(p) :
          /\ TopEdges(ab[1]) # TopEdges(ab[2])
          /\ lt(Zero, MarginBox(ab[1], p).height)
          /\ lt(Zero, boxes[ab[1]].dimensions.margin.bottom)

----------------------------------------------------------------------------
(* C2: render clipping *)

\* the coordinates <<x, y>> that painting a box with dimensions d addresses
Footprint(d) ==
    LET ops == background_ops(d) \o border_ops(d)
    IN {<<ops[k][1], ops[k][2]>> : k \in DOMAIN ops}

\* the boxes render visits: the root box and its descendants
Rendered == DOMAIN boxes \ {ViewportBox}

\* the in-bounds area of the boxes: the addressed coordinates inside the grid
InBoundsArea ==
    {c \in UNION {Footprint(boxes[b].dimensions) : b \in Rendered} :
        /\ 0 <= c[1] /\ c[1] < viewport_width
        /\ 0 <= c[2] /\ c[2] < viewport_height}

\* C2: render returns viewport_height rows of viewport_width cells, and a
\* paint outside the grid changes no cell: every cell outside the boxes'
\* in-bounds area still holds the fill character
C2_RenderClipping ==
    pc = "rendered" =>
        /\ Len(character_array) = viewport_height
        /\ \A y \in 0..(viewport_height - 1) :
              /\ Len(character_array[y + 1]) = viewport_width
              /\ \A x \in 0..(viewport_width - 1) :
                    <<x, y>> \notin InBoundsArea
                        => character_array[y + 1][x + 1] = default_fill

----------------------------------------------------------------------------
(* C3: inline grouping *)

\* the nodes a run of child boxes stands for, in order: a Block box for its
\* own node, an Anonymous box for the nodes of the boxes it hosts
RECURSIVE Hosted(_, _)
Hosted(kids, k) ==
    IF k > Len(kids)
    THEN <<>>
    ELSE (IF boxes[kids[k]].box_type = "ANONYMOUS"
          THEN boxes[kids[k]].children
          ELSE <<kids[k]>>)
         \o Hosted(kids, k + 1)

\* the children of node n that are displayed, in document order
Displayed(n) ==
    LET Shown(c) == NodeGet(c, "display") # "NONE"
    IN SelectSeq(nodes[n].children, Shown)

\* the children of Block box b are Block boxes of block children and
\* Anonymous boxes, each Anonymous box hosting one whole run of inline
\* children, all in document order
Grouped(b) ==
    LET kids == boxes[b].children
    IN /\ Hosted(kids, 1) = Displayed(boxes[b].node)
       /\ \A k \in DOMAIN kids :
             \/ /\ boxes[kids[k]].box_type = "BLOCK"
                /\ NodeGet(kids[k], "display") = "BLOCK"
             \/ /\ boxes[kids[k]].box_type = "ANONYMOUS"
                /\ boxes[kids[k]].children # <<>>
                /\ \A j \in DOMAIN boxes[kids[k]].children :
                      boxes[boxes[kids[k]].children[j]].box_type = "INLINE"
                /\ k > 1 => boxes[kids[k - 1]].box_type # "ANONYMOUS"

\* the box tree is grouped at every Block box of a node
GroupedTree ==
    \A b \in DOMAIN boxes :
        (b # ViewportBox /\ boxes[b].box_type = "BLOCK") => Grouped(b)

\* C3: layout_tree on a block node returns a box tree in which the inline
\* children of every block are grouped into Anonymous boxes, one per run:
\* the call is not ended by an AttributeError and the returned tree is
\* grouped
C3_InlineGrouping ==
    NodeGet(RootNode, "display") = "BLOCK" =>
        /\ raised # "AttributeError"
        /\ Returned => GroupedTree

----------------------------------------------------------------------------
(* C5: absent ancestor lookups *)

\* C5: with no ancestor of non-zero content width or height (a viewport of
\* width 0 or height 0) layout_tree still completes: no lookup that comes
\* back empty ends the call with a TypeError
C5_AbsentAncestorFallback ==
    (viewport_width = 0 \/ viewport_height = 0) => raised # "TypeError"

----------------------------------------------------------------------------
(* C6: display:none pruning *)

\* node n or one of its ancestors in the node tree has display NONE
RECURSIVE Hidden(_)
Hidden(n) ==
    \/ NodeGet(n, "display") = "NONE"
    \/ \E q \in DOMAIN nodes :
          /\ \E k \in DOMAIN nodes[q].children : nodes[q].children[k] = n
          /\ Hidden(q)

\* C6: for a node with display NONE anywhere in the tree, the document root
\* included, layout_tree produces a result with no box for the node or its
\* descendants (the call is not ended by an AttributeError on the pruned
\* root), and render visits no box of theirs
C6_DisplayNonePruning ==
    /\ \A n \in DOMAIN nodes :
          Hidden(n) =>
              /\ \A b \in DOMAIN boxes : boxes[b].node # n
              /\ \A k \in DOMAIN queue : boxes[queue[k]].node # n
    /\ NodeGet(RootNode, "display") = "NONE" => raised # "AttributeError"

----------------------------------------------------------------------------
(* C4: box-model nesting *)

\* margin box >= border box >= padding box >= content, in width, and each
\* expansion's x at or left of the x of the rectangle it expands
WidthChain(b, cb) ==
    LET d == boxes[b].dimensions
        c == boxes[cb].dimensions
        padding == padding_box(d, c)
        border == border_box(d, c)
        margin == margin_box(d, c)
    IN /\ le(border.width, margin.width)
       /\ le(padding.width, border.width)
       /\ le(d.content.width, padding.width)
       /\ le(margin.x, border.x)
       /\ le(border.x, padding.x)
       /\ le(padding.x, d.content.x)

\* the same in height and y
HeightChain(b, cb) ==
    LET d == boxes[b].dimensions
        c == boxes[cb].dimensions
        padding == padding_box(d, c)
        border == border_box(d, c)
        margin == margin_box(d, c)
    IN /\ le(border.height, margin.height)
       /\ le(padding.height, border.height)
       /\ le(d.content.height, padding.height)
       /\ le(margin.y, border.y)
       /\ le(border.y, padding.y)
       /\ le(padding.y, d.content.y)

\* the boxes of the returned tree, each with its containing block
Contained == {b \in DOMAIN boxes : boxes[b].parent # NoBox}

\* the declared horizontal values of a laid-out block box add up to more
\* than its container width: underflow < 0
OverConstrained(b) ==
    /\ b \in LaidOut
    /\ LET container_width == find_ancestral_width(boxes, b)
       IN negative(sub(container_width[1],
                       horizontal_total(boxes[b].node, container_width)))

----------------------------------------------------------------------------
(* C7: horizontal balance *)

\* the Block boxes with a fixed width and no auto side margin whose width
\* has been calculated
FixedBoxes ==
    {b \in WidthDone :
        /\ ~isAuto(NodeGet(boxes[b].node, "width"))
        /\ ~isAuto(NodeGet(boxes[b].node, "margin_left"))
        /\ ~isAuto(NodeGet(boxes[b].node, "margin_right"))}

\* margin.left + border.left + padding.left + content.width + padding.right
\* + border.right + margin.right, as Python evaluates it
HorizontalSum(d) ==
    sum(<<d.margin.left, d.border.left, d.padding.left, d.content.width,
          d.padding.right, d.border.right, d.margin.right>>)

\* C7 as claimed: for every Block box with a fixed width and no auto
\* left/right margin, once its width is calculated the seven horizontal
\* values add up exactly to the content width of the nearest ancestor with
\* non-zero content width, in pixels or percentages
C7_HorizontalBalance ==
    \A b \in FixedBoxes :
        <<HorizontalSum(boxes[b].dimensions)>> = find_ancestral_width(boxes, b)

\* C7 as amended: the seven values add up to that container width up to
\* floating-point rounding (2^-40 of a pixel), and exactly where no value
\* is rounded, as with whole pixels and percentages that resolve to binary
\* fractions
C7_HorizontalBalanceRounded ==
    \A b \in FixedBoxes :
        Balanced(HorizontalSum(boxes[b].dimensions),
                 find_ancestral_width(boxes, b)[1])

\* a percentage width that under-fills and a pixel width that over-fills,
\* the first resolved against an ancestor beyond a parent of width 0, in a
\* tree where nothing is rounded
C7_Witness ==
    /\ Returned
    /\ NothingRounded
    /\ \E b \in FixedBoxes :
          /\ NodeGet(boxes[b].node, "width").unit = "PERCENT"
          /\ lt(Zero, boxes[b].dimensions.margin.right)
          /\ boxes[boxes[b].parent[1]].dimensions.content.width = Zero
    /\ \E b \in FixedBoxes :
          /\ NodeGet(boxes[b].node, "width").unit = "PIXELS"
          /\ negative(boxes[b].dimensions.margin.right)

----------------------------------------------------------------------------
(* C8: the demo *)

\* demo.py: the node tree and viewport of the demo
IsDemo ==
    /\ nodes = dummy
    /\ viewport_width = DemoViewport
    /\ viewport_height = DemoViewport

\* the glyph of the ring around the cells x..x+1, y..y+1 at column c, row r
RingGlyph(x, y, c, r) ==
    IF r = y - 1
    THEN IF c = x - 1 THEN Border.LIGHT_ARC_TOP_LEFT
         ELSE IF c = x + 2 THEN Border.LIGHT_ARC_TOP_RIGHT
         ELSE Border.LIGHT_HORIZONTAL
    ELSE IF r = y + 2
         THEN IF c = x - 1 THEN Border.LIGHT_ARC_BOTTOM_LEFT
              ELSE IF c = x + 2 THEN Border.LIGHT_ARC_BOTTOM_RIGHT
              ELSE Border.LIGHT_HORIZONTAL
         ELSE Border.LIGHT_VERTICAL

\* the root's content box is 2x2 at (x, y) and the grid shows it filled
\* with spaces inside a one-cell ring of light glyphs, every other cell
\* holding the fill character
DemoPicture(x, y) ==
    /\ boxes[RootNode].dimensions.content =
           [x |-> float(x), y |-> float(y),
            width |-> float(2), height |-> float(2)]
    /\ Len(character_array) = DemoViewport
    /\ \A r \in 0..(DemoViewport - 1) :
          /\ Len(character_array[r + 1]) = DemoViewport
          /\ \A c \in 0..(DemoViewport - 1) :
                character_array[r + 1][c + 1] =
                    IF c \in x..(x + 1) /\ r \in y..(y + 1)
                    THEN " "
                    ELSE IF c \in (x - 1)..(x + 2) /\ r \in (y - 1)..(y + 2)
                         THEN RingGlyph(x, y, c, r)
                         ELSE default_fill

\* C8 as claimed: the demo's content box is 2x2 at (4, 4), and render shows
\* it filled with spaces in a ring of light glyphs, '.' elsewhere
C8_DemoAtFourFour == (IsDemo /\ pc = "rendered") => DemoPicture(4, 4)

\* C8 as amended: the demo's content box is 2x2 at (3, 3) (margin 2 +
\* border 1 + padding 0), and render shows it filled with spaces in a
\* one-cell ring of light glyphs, every other cell equal to '.'
C8_DemoAtThreeThree == (IsDemo /\ pc = "rendered") => DemoPicture(3, 3)

\* the demo has been laid out and rendered
C8_Witness ==
    /\ IsDemo
    /\ pc = "rendered"
    /\ character_array[4][4] = " "
    /\ character_array[3][3] = Border.LIGHT_ARC_TOP_LEFT

----------------------------------------------------------------------------
(* C9: phase ordering *)

\* the numbers calculate_block_width assigns
Horizontal(d) ==
    <<d.content.width, d.margin.left, d.margin.right, d.border.left,
      d.border.right, d.padding.left, d.padding.right>>

\* the numbers calculate_block_position assigns
Placement(d) ==
    <<d.content.x, d.content.y, d.margin.top, d.margin.bottom, d.border.top,
      d.border.bottom, d.padding.top, d.padding.bottom>>

\* the boxes below box b in the tree
RECURSIVE Descendants(_)
Descendants(b) ==
    LET kids == {boxes[b].children[k] : k \in DOMAIN boxes[b].children}
    IN kids \cup UNION {Descendants(c) : c \in kids}

\* layout of box c has begun: it is being laid out or has been
Started(c) == c \in finished \/ \E k \in DOMAIN stack : stack[k].box = c

\* the call of layout_block named phase has been made by frame f
Ran(f, phase) == \E k \in 1..(f.step - 1) : layout_block[k] = phase

\* what the frame on top is about to do comes in order: width and position
\* with no child started, position after width, the children after both,
\* height after the children and with every descendant finished
PhaseState ==
    (pc = "layout" /\ stack # <<>>) =>
        /\ Phase(Top) \in {"width", "position"} =>
              \A c \in Descendants(Top.box) : ~Started(c)
        /\ Phase(Top) = "position" => Ran(Top, "width")
        /\ Phase(Top) = "children" =>
              Ran(Top, "width") /\ Ran(Top, "position")
        /\ Phase(Top) = "height" =>
              /\ Ran(Top, "children") \/ boxes[Top.box].children = <<>>
              /\ \A c \in Descendants(Top.box) : c \in finished

\* a step within a call writes the width and horizontal edges of a box only
\* in its width phase, its origin and vertical edges only in its position
\* phase, both before any child has started, and its height only in its
\* height phase
PhaseStep ==
    (calls' = calls /\ pc = "layout") =>
        \A b \in DOMAIN boxes :
            LET d == boxes[b].dimensions
                e == boxes'[b].dimensions
            IN /\ Horizontal(e) # Horizontal(d) =>
                     /\ Top.box = b /\ Phase(Top) = "width"
                     /\ \A c \in Descendants(b) : ~Started(c)
               /\ Placement(e) # Placement(d) =>
                     /\ Top.box = b /\ Phase(Top) = "position"
                     /\ \A c \in Descendants(b) : ~Started(c)
               /\ e.content.height # d.content.height =>
                     /\ Top.box = b /\ Phase(Top) = "height"
                     /\ \A c \in Descendants(b) : c \in finished

\* C9: during layout_tree, for every Block box the width and horizontal
\* edges, then the origin and vertical edges, are assigned before layout of
\* any of its children begins, the height only after layout of all its
\* descendants has finished, and width and position are not written again
\* once a child has started
C9_PhaseOrdering == [](PhaseState) /\ [][PhaseStep]_vars

\* a box about to get its height after two generations below it were laid
\* out, its own width and origin assigned
C9_Witness ==
    /\ pc = "layout"
    /\ Len(stack) = 1
    /\ Phase(Top) = "height"
    /\ \E c \in Descendants(Top.box) : boxes[c].children # <<>>
    /\ boxes[Top.box].dimensions.content.width # Zero
    /\ boxes[Top.box].dimensions.content.y # Zero
    /\ boxes[Top.box].dimensions.child_height # Zero

----------------------------------------------------------------------------
(* C10: idempotence *)

----------------------------------------------------------------------------
(* C11: the height phase *)

\* child_height of box p after its first k children were laid out: the sum,
\* as layout_block_children accumulates it, of the margin-box heights of
\* those of them that are not absolutely positioned
RECURSIVE FlowHeight(_, _)
FlowHeight(p, k) ==
    IF k = 0
    THEN Zero
    ELSE LET c == boxes[p].children[k]
         IN IF IsAbsolute(c)
            THEN FlowHeight(p, k - 1)
            ELSE add(FlowHeight(p, k - 1), MarginBox(c, p).height)

\* the content height of box b is its height style resolved against
\* container_height if that style is a Length, and else its child_height,
\* the sum of the margin-box heights of its children in the flow
HeightFrom(b, container_height) ==
    LET height == NodeGet(boxes[b].node, "height")
        d == boxes[b].dimensions
    IN IF isLength(height)
       THEN /\ ~to_pixels_raises(height, container_height)
            /\ d.content.height = to_pixels(height, container_height)
       ELSE /\ d.content.height = d.child_height
            /\ d.child_height = FlowHeight(b, Len(boxes[b].children))

\* C11 as claimed: for every Block box of the returned tree, a Length height
\* is resolved against the content height of the nearest ancestor whose
\* content height is non-zero in the returned tree, and any other height is
\* the accumulated child_height
C11_HeightAgainstReturnedTree ==
    Returned =>
        \A b \in LaidOut : HeightFrom(b, find_ancestral_height(boxes, b))

\* C11 as amended: a Length height is resolved against the viewport height,
\* the only non-zero content height above a box when its height is
\* calculated, since every box being laid out still has content height 0;
\* any other height is the accumulated child_height
C11_HeightAgainstViewport ==
    /\ pc = "layout" =>
          \A k \in DOMAIN stack :
              boxes[stack[k].box].dimensions.content.height = Zero
    /\ Returned =>
          \A b \in LaidOut : HeightFrom(b, <<float(viewport_height)>>)

\* a percentage height under a parent whose own height is neither 0 nor the
\* viewport's, and an auto height that comes from children in the flow
C11_Witness ==
    /\ Returned
    /\ \E b \in LaidOut :
          /\ NodeGet(boxes[b].node, "height").unit = "PERCENT"
          /\ boxes[b].parent # <<ViewportBox>>
          /\ boxes[boxes[b].parent[1]].dimensions.content.height
                 \notin {Zero, float(viewport_height)}
          /\ boxes[b].dimensions.content.height # Zero
    /\ \E b \in LaidOut :
          /\ isAuto(NodeGet(boxes[b].node, "height"))
          /\ Len(boxes[b].children) = 2
          /\ boxes[b].dimensions.content.height # Zero

----------------------------------------------------------------------------
(* C12: absolutely positioned children are out of the flow *)

\* lines 318-322 of layout_block_children are about to run for a child of
\* the box on top of the stack, its layout() having returned
Accumulating ==
    /\ pc = "layout"
    /\ stack # <<>>
    /\ Phase(Top) = "children"
    /\ Top.waiting
    /\ boxes[boxes[Top.box].children[Top.i]].node # NoNode

\* a step within a call changes the child_height of a box only when that
\* box has just laid out a child: by nothing if the child is absolutely
\* positioned, and else by the height of the child's margin box
FlowStep ==
    (calls' = calls /\ pc = "layout" /\ boxes' # boxes) =>
        \A p \in DOMAIN boxes :
            LET before == boxes[p].dimensions.child_height
                after == boxes'[p].dimensions.child_height
            IN IF Accumulating /\ p = Top.box
               THEN LET child == boxes[p].children[Top.i]
                    IN after = IF IsAbsolute(child)
                               THEN before
                               ELSE add(before, MarginBox(child, p).height)
               ELSE after = before

\* in the returned tree the absolutely positioned children of a block have
\* left no trace in the flow: every child sits below the margin boxes of
\* the children in the flow before it, and an auto height is the sum of the
\* margin-box heights of the children in the flow
FlowState ==
    Returned =>
        \A p \in LaidOut :
            LET n == Len(boxes[p].children)
            IN /\ boxes[p].dimensions.child_height = FlowHeight(p, n)
               /\ ~isLength(NodeGet(boxes[p].node, "height")) =>
                     boxes[p].dimensions.content.height = FlowHeight(p, n)
               /\ \A k \in 1..n :
                     LET c == boxes[p].children[k]
                         d == boxes[c].dimensions
                     IN d.content.y =
                            sum(<<FlowHeight(p, k - 1),
                                  position_base(boxes, c, p).y,
                                  d.margin.top, d.border.top, d.padding.top>>)

\* C12: laying out an absolutely positioned child leaves its parent's
\* child_height unchanged, so that the parent's auto height and the
\* content.y of every later sibling are what they are without that child;
\* every other child increases child_height by its margin-box height
C12_AbsoluteOutOfFlow == [](FlowState) /\ [][FlowStep]_vars

\* an absolutely positioned child with a margin box of positive height,
\* followed by a sibling in the flow that alone makes up the auto height of
\* the parent
C12_Witness ==
    /\ Returned
    /\ \E p \in LaidOut :
          /\ Len(boxes[p].children) = 2
          /\ isAuto(NodeGet(boxes[p].node, "height"))
          /\ IsAbsolute(boxes[p].children[1])
          /\ ~IsAbsolute(boxes[p].children[2])
          /\ lt(Zero, MarginBox(boxes[p].children[1], p).height)
          /\ lt(Zero, MarginBox(boxes[p].children[2], p).height)
          /\ boxes[p].dimensions.content.height
                 = MarginBox(boxes[p].children[2], p).height
          /\ boxes[boxes[p].children[2]].dimensions.content.y
                 # boxes[boxes[p].children[1]].dimensions.content.y

=============================================================================
